---------------------------- MODULE Spec2Model ----------------------------
(***************************************************************************)
(* A model of src/operators.h: the operator layer of the eigen-stl         *)
(* interface (namespace math, namespace math::eigen).                      *)
(*                                                                         *)
(* Every function of the header is a one-line forward to a kernel of the   *)
(* Eigen library.  The model has one operator per overload of the header   *)
(* (named after it), the overload resolution of a call as a dispatch on    *)
(* the operand kinds, and the Eigen kernels as their defining formulas     *)
(* over an exact element type.                                             *)
(*                                                                         *)
(* Element type _T: exact rationals <<n, d>> in lowest terms, d > 0, and   *)
(* one non-finite value <<0, 0>> (the result of a division by zero; it is  *)
(* absorbing: the model never divides by a non-finite value).  Exact       *)
(* arithmetic stands for "within floating-point tolerance".                *)
(***************************************************************************)
EXTENDS Integers, Sequences, FiniteSets, TLC

(***************************************************************************)
(* Bounds of the model.                                                    *)
(***************************************************************************)
\* longest vector, and largest matrix dimension, drawn as an input
MaxLen == 2
\* largest magnitude of an input element
MaxCoef == 1
\* longest sequence of calls in the free-running specifications
MaxCalls == 2
\* most entries in which an input matrix differs from its base matrix
MaxNonZero == 1
\* largest magnitude of an element of a vector to normalize
MaxNormCoef == 4

(***************************************************************************)
(* The element type _T and its arithmetic.                                 *)
(***************************************************************************)
RECURSIVE GCD(_, _)
GCD(m, n) == IF n = 0 THEN m ELSE GCD(n, m % n)

NonFinite == <<0, 0>>

IsFinite(x) == x[2] # 0

\* the rational n/d in lowest terms with a positive denominator
Rat(n, d) ==
    IF d = 0 THEN NonFinite
    ELSE LET sg == IF d < 0 THEN 0 - 1 ELSE 1
             g == GCD(IF n < 0 THEN 0 - n ELSE n, sg * d)
         IN  <<(sg * n) \div g, (sg * d) \div g>>

\* the element with integer value k
Z(k) == <<k, 1>>

RAdd(x, y) ==
    IF IsFinite(x) /\ IsFinite(y)
    THEN Rat(x[1] * y[2] + y[1] * x[2], x[2] * y[2]) ELSE NonFinite

RSub(x, y) ==
    IF IsFinite(x) /\ IsFinite(y)
    THEN Rat(x[1] * y[2] - y[1] * x[2], x[2] * y[2]) ELSE NonFinite

RMul(x, y) ==
    IF IsFinite(x) /\ IsFinite(y)
    THEN Rat(x[1] * y[1], x[2] * y[2]) ELSE NonFinite

\* x / y; a division by zero gives the non-finite value
RDiv(x, y) ==
    IF IsFinite(x) /\ IsFinite(y) /\ y[1] # 0
    THEN Rat(x[1] * y[2], x[2] * y[1]) ELSE NonFinite

RAbs(x) == <<IF x[1] < 0 THEN 0 - x[1] ELSE x[1], x[2]>>

RLess(x, y) == x[1] * y[2] < y[1] * x[2]

RSqrt(x) ==
    IF /\ IsFinite(x)
       /\ x[1] >= 0
       /\ \E k \in 0..x[1] : k * k = x[1]
       /\ \E k \in 0..x[2] : k * k = x[2]
    THEN <<CHOOSE k \in 0..x[1] : k * k = x[1],
           CHOOSE k \in 0..x[2] : k * k = x[2]>>
    ELSE NonFinite

\* x has an exact square root in the element type
HasSqrt(x) == IsFinite(RSqrt(x))

(***************************************************************************)
(* The Eigen kernels the header forwards to.  A dense vector is a sequence *)
(* of elements, a dense matrix a non-empty sequence of rows of equal,      *)
(* non-zero length.                                                        *)
(***************************************************************************)
Rows(m) == Len(m)

Cols(m) == Len(m[1])

RECURSIVE SumSeq(_)
SumSeq(x) == IF x = <<>> THEN Z(0) ELSE RAdd(x[1], SumSeq(Tail(x)))

RECURSIVE MaxSeq(_)
MaxSeq(x) ==
    IF Len(x) = 1 THEN x[1]
    ELSE LET m == MaxSeq(Tail(x)) IN IF RLess(x[1], m) THEN m ELSE x[1]

CwiseAdd(x, y) == [i \in 1..Len(x) |-> RAdd(x[i], y[i])]

CwiseSub(x, y) == [i \in 1..Len(x) |-> RSub(x[i], y[i])]

CwiseProduct(x, y) == [i \in 1..Len(x) |-> RMul(x[i], y[i])]

CwiseQuotient(x, y) == [i \in 1..Len(x) |-> RDiv(x[i], y[i])]

CwiseAbs(x) == [i \in 1..Len(x) |-> RAbs(x[i])]

ScaleVec(x, k) == [i \in 1..Len(x) |-> RMul(x[i], k)]

UnscaleVec(x, k) == [i \in 1..Len(x) |-> RDiv(x[i], k)]

\* a dense column vector as the n-by-1 matrix it is
AsColumn(x) == [i \in 1..Len(x) |-> <<x[i]>>]

MatTranspose(m) == [j \in 1..Cols(m) |-> [i \in 1..Rows(m) |-> m[i][j]]]

MatProduct(m, n) ==
    [i \in 1..Rows(m) |->
        [j \in 1..Cols(n) |->
            SumSeq([k \in 1..Cols(m) |-> RMul(m[i][k], n[k][j])])]]

MatAdd(m, n) == [i \in 1..Rows(m) |-> CwiseAdd(m[i], n[i])]

MatSub(m, n) == [i \in 1..Rows(m) |-> CwiseSub(m[i], n[i])]

ScaleMat(m, k) == [i \in 1..Rows(m) |-> ScaleVec(m[i], k)]

UnscaleMat(m, k) == [i \in 1..Rows(m) |-> UnscaleVec(m[i], k)]

\* the conversion of a product to the dense column vector type: a column
\* is copied, a row is transposed on assignment
ToColumnVector(m) ==
    IF Cols(m) = 1 THEN [i \in 1..Rows(m) |-> m[i][1]]
    ELSE [j \in 1..Cols(m) |-> m[1][j]]

\* the conversion of a 1-by-1 product to the element type
ToScalar(m) == m[1][1]

\* a matrix without row r and column c
Minor(m, r, c) ==
    [i \in 1..(Rows(m) - 1) |->
        [j \in 1..(Cols(m) - 1) |->
            m[IF i < r THEN i ELSE i + 1][IF j < c THEN j ELSE j + 1]]]

RECURSIVE Det(_)
Det(m) ==
    IF Rows(m) = 1 THEN m[1][1]
    ELSE SumSeq([j \in 1..Cols(m) |->
                    RMul(RMul(Z(IF j % 2 = 1 THEN 1 ELSE 0 - 1), m[1][j]),
                         Det(Minor(m, 1, j)))])

Cofactor(m, i, j) ==
    IF Rows(m) = 1 THEN Z(1)
    ELSE RMul(Z(IF (i + j) % 2 = 0 THEN 1 ELSE 0 - 1), Det(Minor(m, i, j)))

\* the inverse of a square matrix; of a singular one, non-finite entries
MatInverse(m) ==
    LET d == Det(m)
    IN  [i \in 1..Rows(m) |->
            [j \in 1..Cols(m) |-> RDiv(Cofactor(m, j, i), d)]]

SquaredNorm(x) == SumSeq(CwiseProduct(x, x))

\* lpNorm<p> for p = 1, 2 and Infinity
Infinity == -1

LpNorm(l, x) ==
    IF l = 1 THEN SumSeq(CwiseAbs(x))
    ELSE IF l = 2 THEN RSqrt(SquaredNorm(x))
    ELSE MaxSeq(CwiseAbs(x))

\* MatrixBase::normalize: scales by the L2 norm unless the vector is zero
NormalizeInPlace(x) ==
    IF RLess(Z(0), SquaredNorm(x)) THEN UnscaleVec(x, RSqrt(SquaredNorm(x)))
    ELSE x


(***************************************************************************)
(* Values of the layer.  A value has a kind (its C++ type), its elements   *)
(* and, when it is an object of the caller or a view of one, that          *)
(* object's name:                                                          *)
(*   "vector"       math::vector<_T>, the owning container                 *)
(*   "vector_map"   vector<_T>::map_type, a view of an external buffer     *)
(*   "eigen_vector" vector<_T>::eigen_type, Eigen's dense column vector    *)
(*   "matrix", "matrix_map", "eigen_matrix"  likewise for math::matrix<_T> *)
(*   "scalar"       _T                                                     *)
(*   "void"         no value                                               *)
(*   "no_match"     no overload of the header is viable for the call: it   *)
(*                  is not a call of the layer                             *)
(***************************************************************************)
Value(k, v) == [kind |-> k, val |-> v, ref |-> ""]

\* vector<_T>(expr): the container constructed from an Eigen expression
Vector(e) == Value("vector", e)

\* matrix<_T>(expr)
Matrix(e) == Value("matrix", e)

\* the conversion of an Eigen expression to vector<_T>::eigen_type
EigenVector(e) == Value("eigen_vector", e)

\* the conversion of an Eigen expression to matrix<_T>::eigen_type
EigenMatrix(e) == Value("eigen_matrix", e)

Scalar(x) == Value("scalar", x)

Void == Value("void", <<>>)

NoMatch == Value("no_match", <<>>)

\* the accessor eigen() of a container: its elements in Eigen's representation
eigen(c) == c.val

(***************************************************************************)
(* namespace math::eigen, first part (operators.h 32-96).                  *)
(***************************************************************************)
transpose_mutant(mat) == Matrix(eigen(mat))

transpose(mat) == Matrix(MatTranspose(eigen(mat)))

\* the adjugate, not divided by the determinant
inverse_mutant(mat) ==
    Matrix([i \in 1..Rows(eigen(mat)) |->
               [j \in 1..Cols(eigen(mat)) |-> Cofactor(eigen(mat), j, i)]])

inverse(mat) == Matrix(MatInverse(eigen(mat)))

norm_l(l, vec) == Scalar(LpNorm(l, eigen(vec)))

norm(vec) == Scalar(RSqrt(SquaredNorm(eigen(vec))))

sum(vec) == Scalar(SumSeq(eigen(vec)))

(***************************************************************************)
(* Vector and scalar (operators.h 98-120).                                 *)
(***************************************************************************)
Times_vec_scalar(vec, scalar) == Vector(ScaleVec(eigen(vec), scalar.val))

Times_scalar_vec(scalar, vec) ==
    Vector([i \in 1..Len(eigen(vec)) |-> RMul(scalar.val, eigen(vec)[i])])

Div_vec_scalar_mutant(vec, scalar) == Vector(ScaleVec(eigen(vec), scalar.val))

Div_vec_scalar(vec, scalar) == Vector(UnscaleVec(eigen(vec), scalar.val))

(***************************************************************************)
(* eigen::normalize (operators.h 65-79), on the vector object id of the    *)
(* store h: the store after the call.                                      *)
(***************************************************************************)
\* divides by the default norm whatever the order asked for
normalize_l_mutant(l, h, id) ==
    [h EXCEPT ![id] =
        eigen(Div_vec_scalar(Vector(h[id]), norm(Vector(h[id]))))]

\* vec = vec / norm<_l, _T>(vec)
normalize_l(l, h, id) ==
    [h EXCEPT ![id] =
        eigen(Div_vec_scalar(Vector(h[id]), norm_l(l, Vector(h[id]))))]

\* vec.eigen().normalize()
normalize(h, id) == [h EXCEPT ![id] = NormalizeInPlace(h[id])]

(***************************************************************************)
(* Vector times vector, the inner product (operators.h 122-144).           *)
(***************************************************************************)
Times_vec_vec_mutant(vecT, vec) ==
    Scalar(ToScalar(MatProduct(MatTranspose(AsColumn(eigen(vecT))),
                               AsColumn(CwiseAbs(eigen(vec))))))

Times_vec_vec(vecT, vec) ==
    Scalar(ToScalar(MatProduct(MatTranspose(AsColumn(eigen(vecT))),
                               AsColumn(eigen(vec)))))

Times_map_vec(vecT, vec) ==
    Scalar(ToScalar(MatProduct(MatTranspose(AsColumn(vecT.val)),
                               AsColumn(eigen(vec)))))

Times_vec_map(vecT, vec) ==
    Scalar(ToScalar(MatProduct(MatTranspose(AsColumn(eigen(vecT))),
                               AsColumn(vec.val))))

(***************************************************************************)
(* namespace math::eigen, second part (operators.h 146-186).               *)
(***************************************************************************)
cprod(vec1, vec2) == Vector(CwiseProduct(eigen(vec1), eigen(vec2)))

cprod_map_vec(vec1, vec2) == Vector(CwiseProduct(vec1.val, eigen(vec2)))

cprod_vec_map(vec1, vec2) == Vector(CwiseProduct(eigen(vec1), vec2.val))

cdiv(vec1, vec2) == Vector(CwiseQuotient(eigen(vec1), eigen(vec2)))

(***************************************************************************)
(* Vector plus and minus vector (operators.h 188-210, 248-270).            *)
(***************************************************************************)
Plus_vec_vec(lhs, rhs) == Vector(CwiseAdd(eigen(lhs), eigen(rhs)))

Plus_map_vec_mutant(lhs, rhs) == Vector(CwiseAdd(eigen(rhs), eigen(rhs)))

Plus_map_vec(lhs, rhs) == Vector(CwiseAdd(lhs.val, eigen(rhs)))

Plus_vec_map(lhs, rhs) == Vector(CwiseAdd(eigen(lhs), rhs.val))

Minus_vec_vec_mutant(lhs, rhs) == EigenVector(CwiseSub(eigen(rhs), eigen(lhs)))

Minus_vec_vec(lhs, rhs) == EigenVector(CwiseSub(eigen(lhs), eigen(rhs)))

Minus_map_vec(lhs, rhs) == EigenVector(CwiseSub(lhs.val, eigen(rhs)))

Minus_vec_map(lhs, rhs) == EigenVector(CwiseSub(eigen(lhs), rhs.val))

(***************************************************************************)
(* Matrix operators (operators.h 272-350).                                 *)
(***************************************************************************)
Times_mat_scalar(mat, scalar) == EigenMatrix(ScaleMat(eigen(mat), scalar.val))

Times_scalar_mat(scalar, mat) ==
    EigenMatrix([i \in 1..Rows(eigen(mat)) |->
                    [j \in 1..Cols(eigen(mat)) |-> RMul(scalar.val, eigen(mat)[i][j])]])

Div_mat_scalar(mat, scalar) == EigenMatrix(UnscaleMat(eigen(mat), scalar.val))

Times_mat_vec(mat, vec) ==
    EigenVector(ToColumnVector(MatProduct(eigen(mat), AsColumn(eigen(vec)))))

Times_matmap_vec(mat, vec) ==
    EigenVector(ToColumnVector(MatProduct(mat.val, AsColumn(eigen(vec)))))

Times_mat_vecmap(mat, vec) ==
    EigenVector(ToColumnVector(MatProduct(eigen(mat), AsColumn(vec.val))))

Times_vec_mat_mutant(vecT, mat) ==
    EigenVector(ToColumnVector(MatProduct(eigen(mat), AsColumn(eigen(vecT)))))

Times_vec_mat(vecT, mat) ==
    EigenVector(ToColumnVector(MatProduct(MatTranspose(AsColumn(eigen(vecT))),
                                          eigen(mat))))

\* the product converted to the container before it is returned
Times_mat_mat_mutant(lhs, rhs) == Matrix(MatProduct(eigen(lhs), eigen(rhs)))

Times_mat_mat(lhs, rhs) == EigenMatrix(MatProduct(eigen(lhs), eigen(rhs)))

Plus_mat_mat(lhs, rhs) == EigenMatrix(MatAdd(eigen(lhs), eigen(rhs)))

Minus_mat_mat(lhs, rhs) == EigenMatrix(MatSub(eigen(lhs), eigen(rhs)))

(***************************************************************************)
(* Compound assignment (operators.h 212-246).  The left operand is an      *)
(* object of the caller, named l in the store h of vector objects, and is  *)
(* updated element by element; the right operand of += and -= is read      *)
(* through the store too, so that it may be the left operand itself.       *)
(***************************************************************************)
RECURSIVE AddAssignLoop(_, _, _, _)
AddAssignLoop(h, l, r, i) ==
    IF i > Len(h[l]) THEN h
    ELSE AddAssignLoop([h EXCEPT ![l][i] = RAdd(h[l][i], h[r][i])], l, r, i + 1)

RECURSIVE SubAssignLoop(_, _, _, _)
SubAssignLoop(h, l, r, i) ==
    IF i > Len(h[l]) THEN h
    ELSE SubAssignLoop([h EXCEPT ![l][i] = RSub(h[l][i], h[r][i])], l, r, i + 1)

RECURSIVE MulAssignLoop(_, _, _, _)
MulAssignLoop(h, l, k, i) ==
    IF i > Len(h[l]) THEN h
    ELSE MulAssignLoop([h EXCEPT ![l][i] = RMul(h[l][i], k)], l, k, i + 1)

RECURSIVE DivAssignLoop(_, _, _, _)
DivAssignLoop(h, l, k, i) ==
    IF i > Len(h[l]) THEN h
    ELSE DivAssignLoop([h EXCEPT ![l][i] = RDiv(h[l][i], k)], l, k, i + 1)

\* the store after lhs += rhs
PlusAssign(h, l, r) == AddAssignLoop(h, l, r, 1)

MinusAssign_mutant(h, l, r) == AddAssignLoop(h, l, r, 1)

\* the store after lhs -= rhs
MinusAssign(h, l, r) == SubAssignLoop(h, l, r, 1)

\* the store after lhs *= rhs; Eigen copies the scalar before the loop
TimesAssign(h, l, k) == MulAssignLoop(h, l, k, 1)

\* the store after lhs /= rhs
DivAssign(h, l, k) == DivAssignLoop(h, l, k, 1)

(***************************************************************************)
(* Overload resolution: the overload of the header a call selects, by the  *)
(* kinds of its operands.  The template parameter _T is deduced from the   *)
(* operands of container kind only (map_type and eigen_type are nested     *)
(* types: a non-deduced context, and no conversion applies to a deduced    *)
(* parameter), so an operand of another kind matches no overload.          *)
(***************************************************************************)
OperatorPlus(lhs, rhs) ==
    CASE lhs.kind = "vector" /\ rhs.kind = "vector" -> Plus_vec_vec(lhs, rhs)
      [] lhs.kind = "vector_map" /\ rhs.kind = "vector" -> Plus_map_vec(lhs, rhs)
      [] lhs.kind = "vector" /\ rhs.kind = "vector_map" -> Plus_vec_map(lhs, rhs)
      [] lhs.kind = "matrix" /\ rhs.kind = "matrix" -> Plus_mat_mat(lhs, rhs)
      [] OTHER -> NoMatch

OperatorMinus(lhs, rhs) ==
    CASE lhs.kind = "vector" /\ rhs.kind = "vector" -> Minus_vec_vec(lhs, rhs)
      [] lhs.kind = "vector_map" /\ rhs.kind = "vector" -> Minus_map_vec(lhs, rhs)
      [] lhs.kind = "vector" /\ rhs.kind = "vector_map" -> Minus_vec_map(lhs, rhs)
      [] lhs.kind = "matrix" /\ rhs.kind = "matrix" -> Minus_mat_mat(lhs, rhs)
      [] OTHER -> NoMatch

OperatorTimes(lhs, rhs) ==
    CASE lhs.kind = "vector" /\ rhs.kind = "scalar" -> Times_vec_scalar(lhs, rhs)
      [] lhs.kind = "scalar" /\ rhs.kind = "vector" -> Times_scalar_vec(lhs, rhs)
      [] lhs.kind = "vector" /\ rhs.kind = "vector" -> Times_vec_vec(lhs, rhs)
      [] lhs.kind = "vector_map" /\ rhs.kind = "vector" -> Times_map_vec(lhs, rhs)
      [] lhs.kind = "vector" /\ rhs.kind = "vector_map" -> Times_vec_map(lhs, rhs)
      [] lhs.kind = "matrix" /\ rhs.kind = "scalar" -> Times_mat_scalar(lhs, rhs)
      [] lhs.kind = "scalar" /\ rhs.kind = "matrix" -> Times_scalar_mat(lhs, rhs)
      [] lhs.kind = "matrix" /\ rhs.kind = "vector" -> Times_mat_vec(lhs, rhs)
      [] lhs.kind = "matrix_map" /\ rhs.kind = "vector" -> Times_matmap_vec(lhs, rhs)
      [] lhs.kind = "matrix" /\ rhs.kind = "vector_map" -> Times_mat_vecmap(lhs, rhs)
      [] lhs.kind = "vector" /\ rhs.kind = "matrix" -> Times_vec_mat(lhs, rhs)
      [] lhs.kind = "matrix" /\ rhs.kind = "matrix" -> Times_mat_mat(lhs, rhs)
      [] OTHER -> NoMatch

OperatorDiv(lhs, rhs) ==
    CASE lhs.kind = "vector" /\ rhs.kind = "scalar" -> Div_vec_scalar(lhs, rhs)
      [] lhs.kind = "matrix" /\ rhs.kind = "scalar" -> Div_mat_scalar(lhs, rhs)
      [] OTHER -> NoMatch

Call_cprod(vec1, vec2) ==
    CASE vec1.kind = "vector" /\ vec2.kind = "vector" -> cprod(vec1, vec2)
      [] vec1.kind = "vector_map" /\ vec2.kind = "vector" -> cprod_map_vec(vec1, vec2)
      [] vec1.kind = "vector" /\ vec2.kind = "vector_map" -> cprod_vec_map(vec1, vec2)
      [] OTHER -> NoMatch

Call_cdiv(vec1, vec2) ==
    IF vec1.kind = "vector" /\ vec2.kind = "vector" THEN cdiv(vec1, vec2)
    ELSE NoMatch

Call_sum(vec) == IF vec.kind = "vector" THEN sum(vec) ELSE NoMatch

Call_transpose(mat) == IF mat.kind = "matrix" THEN transpose(mat) ELSE NoMatch

Call_inverse(mat) == IF mat.kind = "matrix" THEN inverse(mat) ELSE NoMatch

\* a compound assignment binds its left operand to a non-const reference:
\* an object of the caller of kind vector, never a temporary
IsLvalueVector(lhs) == lhs.kind = "vector" /\ lhs.ref # ""

\* the store of vector objects after lhs += rhs; rhs is an object of the
\* store (rhs.ref names it)
OperatorPlusAssign(h, lhs, rhs) ==
    IF IsLvalueVector(lhs) /\ rhs.kind = "vector" THEN PlusAssign(h, lhs.ref, rhs.ref)
    ELSE h

OperatorMinusAssign(h, lhs, rhs) ==
    IF IsLvalueVector(lhs) /\ rhs.kind = "vector" THEN MinusAssign(h, lhs.ref, rhs.ref)
    ELSE h

OperatorTimesAssign(h, lhs, rhs) ==
    IF IsLvalueVector(lhs) /\ rhs.kind = "scalar" THEN TimesAssign(h, lhs.ref, rhs.val)
    ELSE h

OperatorDivAssign(h, lhs, rhs) ==
    IF IsLvalueVector(lhs) /\ rhs.kind = "scalar" THEN DivAssign(h, lhs.ref, rhs.val)
    ELSE h

\* what a compound assignment returns: a reference to its left operand,
\* whose elements are then those of the store h
CompoundResult(h, lhs, rhs, rkind) ==
    IF IsLvalueVector(lhs) /\ rhs.kind = rkind
    THEN [kind |-> "vector", val |-> h[lhs.ref], ref |-> lhs.ref]
    ELSE NoMatch

(***************************************************************************)
(* The state: the caller's objects and the last call made on them.         *)
(***************************************************************************)
VARIABLES
    pc,     \* the position of the caller's program
    vecs,   \* the caller's vector objects: name -> elements
    mats,   \* the caller's matrix objects: name -> rows
    scal,   \* the caller's scalar s
    ret,    \* the value the last call returned
    call,   \* the last call: operator and operands
    prev,   \* vecs, mats, scal and ret as they were before the last call
    ncalls  \* the number of calls made

vars == <<pc, vecs, mats, scal, ret, call, prev, ncalls>>

VecIds == {"a", "b"}

MatIds == {"M"}

\* the caller's vector object id as an operand: the container itself, or a
\* view (map) of its buffer
Obj(id) == [kind |-> "vector", val |-> vecs[id], ref |-> id]

Operand(id, view) ==
    IF view THEN [kind |-> "vector_map", val |-> vecs[id], ref |-> id] ELSE Obj(id)

MatObj(id) == [kind |-> "matrix", val |-> mats[id], ref |-> id]

MatOperand(id, view) ==
    IF view THEN [kind |-> "matrix_map", val |-> mats[id], ref |-> id] ELSE MatObj(id)

ScalarArg == [kind |-> "scalar", val |-> scal, ref |-> "s"]

NoCall == [op |-> "", lhs |-> "", rhs |-> "", lview |-> FALSE, rview |-> FALSE]

CallOf(o, l, r, lv, rv) == [op |-> o, lhs |-> l, rhs |-> r, lview |-> lv, rview |-> rv]

\* a call that changes no object: it returns v and moves the caller to p
Returns(p, c, v) ==
    /\ pc' = p
    /\ ret' = v
    /\ call' = c
    /\ prev' = [vecs |-> vecs, mats |-> mats, scal |-> scal, ret |-> ret]
    /\ ncalls' = ncalls + 1
    /\ UNCHANGED <<vecs, mats, scal>>

\* a call that leaves the vector objects as h and returns v
Updates(p, c, h, v) ==
    /\ pc' = p
    /\ vecs' = h
    /\ ret' = v
    /\ call' = c
    /\ prev' = [vecs |-> vecs, mats |-> mats, scal |-> scal, ret |-> ret]
    /\ ncalls' = ncalls + 1
    /\ UNCHANGED <<mats, scal>>

(***************************************************************************)
(* Inputs.                                                                 *)
(***************************************************************************)
Coefs == {Z(k) : k \in (0 - MaxCoef)..MaxCoef}

VectorsOfLen(n) == [1..n -> Coefs]

(***************************************************************************)
(* SpecAlgebra: the caller evaluates (a + b) - b, (a * s) / s, s * a,      *)
(* a * b and sum(cprod(a, b)) on vectors a, b of equal length and a        *)
(* scalar s, one call of the layer at a time.                              *)
(***************************************************************************)
ScenarioA == <<Z(1), Z(2), Z(3)>>

ScenarioB == <<Z(4), Z(5), Z(6)>>

InitAlgebra ==
    /\ pc = "start"
    /\ \/ /\ \E n \in 1..MaxLen : vecs \in [VecIds -> VectorsOfLen(n)]
          /\ scal = Z(2)
       \/ /\ \E n \in 1..MaxLen : \E v \in VectorsOfLen(n) :
                vecs = [id \in VecIds |-> v]
          /\ scal \in Coefs \cup {Rat(1, 2), Rat(0 - 3, 2)}
       \/ /\ vecs = [id \in VecIds |-> IF id = "a" THEN ScenarioA ELSE ScenarioB]
          /\ scal \in Coefs \cup {Rat(1, 2), Rat(0 - 3, 2)}
    /\ mats = [id \in MatIds |-> <<<<Z(0)>>>>]
    /\ ret = Void
    /\ call = NoCall
    /\ prev = [vecs |-> vecs, mats |-> mats, scal |-> scal, ret |-> Void]
    /\ ncalls = 0

AddVectors ==
    /\ pc = "start"
    /\ Returns("a+b", CallOf("+", "a", "b", FALSE, FALSE),
               OperatorPlus(Obj("a"), Obj("b")))

SubtractFromSum ==
    /\ pc = "a+b"
    /\ Returns("(a+b)-b", CallOf("-", "ret", "b", FALSE, FALSE),
               OperatorMinus(ret, Obj("b")))

ScaleVector ==
    /\ pc = "start"
    /\ Returns("a*s", CallOf("*", "a", "s", FALSE, FALSE),
               OperatorTimes(Obj("a"), ScalarArg))

ScaleVectorLeft ==
    /\ pc = "start"
    /\ Returns("s*a", CallOf("*", "s", "a", FALSE, FALSE),
               OperatorTimes(ScalarArg, Obj("a")))

DivideScaled ==
    /\ pc = "a*s"
    /\ Returns("(a*s)/s", CallOf("/", "ret", "s", FALSE, FALSE),
               OperatorDiv(ret, ScalarArg))

CoefficientProduct ==
    /\ pc = "start"
    /\ Returns("cprod(a,b)", CallOf("cprod", "a", "b", FALSE, FALSE),
               Call_cprod(Obj("a"), Obj("b")))

SumOfProduct ==
    /\ pc = "cprod(a,b)"
    /\ Returns("sum(cprod(a,b))", CallOf("sum", "ret", "", FALSE, FALSE),
               Call_sum(ret))

InnerProduct ==
    /\ pc = "start"
    /\ Returns("a*b", CallOf("*", "a", "b", FALSE, FALSE),
               OperatorTimes(Obj("a"), Obj("b")))

SpecAlgebra ==
    InitAlgebra
        /\ [][ AddVectors
               \/ SubtractFromSum
               \/ ScaleVector
               \/ ScaleVectorLeft
               \/ DivideScaled
               \/ CoefficientProduct
               \/ SumOfProduct
               \/ InnerProduct ]_vars

\* the sum over i of x[i] * y[i], term by term
RECURSIVE SumOfProducts(_, _, _)
SumOfProducts(x, y, i) ==
    IF i > Len(x) THEN Z(0)
    ELSE RAdd(RMul(x[i], y[i]), SumOfProducts(x, y, i + 1))

\* C2: for vectors a, b of equal length, a + b is the elementwise sum,
\* (a + b) - b is the elementwise difference of that sum and b, and it
\* equals a.
C2_AddThenSubtract ==
    /\ pc = "a+b" =>
          /\ ret.kind = "vector"
          /\ Len(ret.val) = Len(vecs["a"])
          /\ \A i \in 1..Len(vecs["a"]) :
                ret.val[i] = RAdd(vecs["a"][i], vecs["b"][i])
    /\ pc = "(a+b)-b" =>
          /\ ret.kind # "no_match"
          /\ Len(ret.val) = Len(vecs["a"])
          /\ \A i \in 1..Len(vecs["a"]) :
                ret.val[i] = RSub(prev.ret.val[i], vecs["b"][i])
          /\ ret.val = vecs["a"]

C2_Witness ==
    /\ pc = "(a+b)-b"
    /\ Len(vecs["a"]) = MaxLen
    /\ vecs["b"][1] # Z(0)
    /\ ret.val = vecs["a"]

\* C3: for a vector v (here a) and a nonzero scalar s, v * s scales every
\* element by s, (v * s) / s divides every element by s again and equals v,
\* and s * v equals v * s.
C3_ScaleThenDivide ==
    /\ pc = "a*s" =>
          /\ ret.kind = "vector"
          /\ Len(ret.val) = Len(vecs["a"])
          /\ \A i \in 1..Len(vecs["a"]) : ret.val[i] = RMul(vecs["a"][i], scal)
    /\ pc = "s*a" =>
          /\ ret.kind = "vector"
          /\ ret.val = Times_vec_scalar(Obj("a"), ScalarArg).val
    /\ (pc = "(a*s)/s" /\ scal # Z(0)) =>
          /\ ret.kind = "vector"
          /\ \A i \in 1..Len(vecs["a"]) : ret.val[i] = RDiv(prev.ret.val[i], scal)
          /\ ret.val = vecs["a"]

C3_Witness ==
    /\ pc = "(a*s)/s"
    /\ scal = Rat(0 - 3, 2)
    /\ vecs["a"][1] # Z(0)
    /\ ret.val = vecs["a"]

\* C8: for vectors a, b of equal length n, cprod(a, b) has length n and
\* i-th element a[i] * b[i]; a * b is the scalar sum over i of a[i] * b[i]
\* and equals sum(cprod(a, b)); a + b has i-th element a[i] + b[i].  For
\* a = [1,2,3], b = [4,5,6] these are [4,10,18], 32 and [5,7,9].
C8_ProductsAndSum ==
    /\ pc = "cprod(a,b)" =>
          /\ ret.kind = "vector"
          /\ Len(ret.val) = Len(vecs["a"])
          /\ \A i \in 1..Len(vecs["a"]) :
                ret.val[i] = RMul(vecs["a"][i], vecs["b"][i])
          /\ vecs["a"] = ScenarioA /\ vecs["b"] = ScenarioB
                => ret.val = <<Z(4), Z(10), Z(18)>>
    /\ pc = "a*b" =>
          /\ ret.kind = "scalar"
          /\ ret.val = SumOfProducts(vecs["a"], vecs["b"], 1)
          /\ ret.val = Call_sum(Call_cprod(Obj("a"), Obj("b"))).val
          /\ vecs["a"] = ScenarioA /\ vecs["b"] = ScenarioB => ret.val = Z(32)
    /\ pc = "sum(cprod(a,b))" =>
          /\ ret.kind = "scalar"
          /\ ret.val = SumOfProducts(vecs["a"], vecs["b"], 1)
    /\ pc = "a+b" =>
          /\ \A i \in 1..Len(vecs["a"]) :
                ret.val[i] = RAdd(vecs["a"][i], vecs["b"][i])
          /\ vecs["a"] = ScenarioA /\ vecs["b"] = ScenarioB
                => ret.val = <<Z(5), Z(7), Z(9)>>

C8_Witness ==
    /\ pc = "a*b"
    /\ vecs["a"] = ScenarioA
    /\ vecs["b"] = ScenarioB
    /\ ret.val = Z(32)

(***************************************************************************)
(* Matrix inputs: a base matrix (the identity pattern, or the matrix of    *)
(* the distinct entries 1, 2, ... in row order) with a few entries         *)
(* changed.  [[1,2],[3,4]] is the 2-by-2 base of distinct entries.         *)
(***************************************************************************)
\* the r-by-c matrices with at most k non-zero entries
Sparse(r, c, k) ==
    UNION {{[i \in 1..r |-> [j \in 1..c |->
                 IF <<i, j>> \in P THEN f[<<i, j>>] ELSE Z(0)]] :
                f \in [P -> Coefs \ {Z(0)}]} :
           P \in {Q \in SUBSET ((1..r) \X (1..c)) : Cardinality(Q) <= k}}

Eye(r, c) == [i \in 1..r |-> [j \in 1..c |-> IF i = j THEN Z(1) ELSE Z(0)]]

Ramp(r, c) == [i \in 1..r |-> [j \in 1..c |-> Z((i - 1) * c + j)]]

(***************************************************************************)
(* SpecMatrix: the caller evaluates transpose(transpose(M)),               *)
(* M * transpose(M) and, for a square M, inverse(inverse(M)) and           *)
(* M * inverse(M).                                                         *)
(***************************************************************************)
InitMatrix ==
    /\ pc = "start"
    /\ \E r \in 1..MaxLen, c \in 1..MaxLen :
          \E B \in {Eye(r, c), Ramp(r, c)}, E \in Sparse(r, c, MaxNonZero) :
             mats = [id \in MatIds |-> MatAdd(B, E)]
    /\ vecs = [id \in VecIds |-> <<Z(0)>>]
    /\ scal = Z(1)
    /\ ret = Void
    /\ call = NoCall
    /\ prev = [vecs |-> vecs, mats |-> mats, scal |-> scal, ret |-> Void]
    /\ ncalls = 0

Transpose ==
    /\ pc = "start"
    /\ Returns("T", CallOf("transpose", "M", "", FALSE, FALSE),
               Call_transpose(MatObj("M")))

TransposeAgain ==
    /\ pc = "T"
    /\ Returns("TT", CallOf("transpose", "ret", "", FALSE, FALSE),
               Call_transpose(ret))

TimesTranspose ==
    /\ pc = "T"
    /\ Returns("M*T", CallOf("*", "M", "ret", FALSE, FALSE),
               OperatorTimes(MatObj("M"), ret))

\* Eigen's inverse() requires a square matrix
Inverse ==
    /\ pc = "start"
    /\ Rows(mats["M"]) = Cols(mats["M"])
    /\ Returns("inv", CallOf("inverse", "M", "", FALSE, FALSE),
               Call_inverse(MatObj("M")))

InverseAgain ==
    /\ pc = "inv"
    /\ Returns("invinv", CallOf("inverse", "ret", "", FALSE, FALSE),
               Call_inverse(ret))

TimesInverse ==
    /\ pc = "inv"
    /\ Returns("M*inv", CallOf("*", "M", "ret", FALSE, FALSE),
               OperatorTimes(MatObj("M"), ret))

SpecMatrix ==
    InitMatrix
        /\ [][ Transpose
               \/ TransposeAgain
               \/ TimesTranspose
               \/ Inverse
               \/ InverseAgain
               \/ TimesInverse ]_vars

\* C4: transpose(M) of an r-by-c matrix M is the c-by-r matrix whose (j,i)
\* element is M's (i,j) element, transpose(transpose(M)) equals M exactly,
\* the call leaves M unchanged, and M * transpose(M) is symmetric.
C4_TransposeTwice ==
    /\ pc = "T" =>
          /\ ret.kind = "matrix"
          /\ Rows(ret.val) = Cols(mats["M"])
          /\ Cols(ret.val) = Rows(mats["M"])
          /\ \A i \in 1..Rows(mats["M"]) : \A j \in 1..Cols(mats["M"]) :
                ret.val[j][i] = mats["M"][i][j]
          /\ mats = prev.mats
          /\ mats["M"] = Ramp(2, 2) => ret.val = <<<<Z(1), Z(3)>>, <<Z(2), Z(4)>>>>
    /\ pc = "TT" =>
          /\ ret.kind = "matrix"
          /\ ret.val = mats["M"]
          /\ mats = prev.mats
    /\ pc = "M*T" =>
          \A i \in 1..Rows(mats["M"]) : \A j \in 1..Rows(mats["M"]) :
              ret.val[i][j] = ret.val[j][i]

C4_Witness ==
    /\ pc = "TT"
    /\ Rows(mats["M"]) # Cols(mats["M"])
    /\ mats["M"][1] # mats["M"][Rows(mats["M"])]
    /\ ret.val = mats["M"]

\* C6: for a square matrix M with a non-zero determinant,
\* inverse(inverse(M)) equals M and M * inverse(M) is the identity matrix
\* of M's dimension.
C6_InverseTwice ==
    (Rows(mats["M"]) = Cols(mats["M"]) /\ Det(mats["M"]) # Z(0)) =>
        /\ pc = "inv" => ret.kind = "matrix" /\ mats = prev.mats
        /\ pc = "invinv" => ret.kind = "matrix" /\ ret.val = mats["M"]
        /\ pc = "M*inv" =>
              /\ ret.kind # "no_match"
              /\ ret.val = Eye(Rows(mats["M"]), Rows(mats["M"]))

C6_Witness ==
    /\ pc = "M*inv"
    /\ Rows(mats["M"]) = MaxLen
    /\ Det(mats["M"]) \notin {Z(0), Z(1), Z(0 - 1)}
    /\ mats["M"] # MatTranspose(mats["M"])
    /\ ret.val = Eye(MaxLen, MaxLen)

(***************************************************************************)
(* SpecLinearMap: the caller evaluates M * a, a * M and transpose(M) * a   *)
(* for a matrix M and a vector a whose length is M's column count (for     *)
(* M * a) or M's row count (for a * M): Eigen's precondition on the        *)
(* shapes of a product.                                                    *)
(***************************************************************************)
ScenarioV == <<Z(3), Z(4)>>

InitLinearMap ==
    /\ pc = "start"
    /\ \/ \E r \in 1..MaxLen, c \in 1..MaxLen :
            /\ \E m \in {Eye(r, c)} \cup
                        {MatAdd(Ramp(r, c), E) : E \in Sparse(r, c, 1)} :
                  mats = [id \in MatIds |-> m]
            /\ \E v \in VectorsOfLen(r) \cup VectorsOfLen(c) :
                  vecs = [id \in VecIds |-> v]
       \/ /\ mats = [id \in MatIds |-> Eye(2, 2)]
          /\ vecs = [id \in VecIds |-> ScenarioV]
    /\ scal = Z(1)
    /\ ret = Void
    /\ call = NoCall
    /\ prev = [vecs |-> vecs, mats |-> mats, scal |-> scal, ret |-> Void]
    /\ ncalls = 0

MatTimesVec ==
    /\ pc = "start"
    /\ Cols(mats["M"]) = Len(vecs["a"])
    /\ Returns("M*a", CallOf("*", "M", "a", FALSE, FALSE),
               OperatorTimes(MatObj("M"), Obj("a")))

VecTimesMat ==
    /\ pc = "start"
    /\ Rows(mats["M"]) = Len(vecs["a"])
    /\ Returns("a*M", CallOf("*", "a", "M", FALSE, FALSE),
               OperatorTimes(Obj("a"), MatObj("M")))

TransposeMap ==
    /\ pc = "start"
    /\ Rows(mats["M"]) = Len(vecs["a"])
    /\ Returns("T(M)", CallOf("transpose", "M", "", FALSE, FALSE),
               Call_transpose(MatObj("M")))

TransposedTimesVec ==
    /\ pc = "T(M)"
    /\ Returns("T(M)*a", CallOf("*", "ret", "a", FALSE, FALSE),
               OperatorTimes(ret, Obj("a")))

SpecLinearMap ==
    InitLinearMap
        /\ [][ MatTimesVec
               \/ VecTimesMat
               \/ TransposeMap
               \/ TransposedTimesVec ]_vars

\* the sum over j of M[i][j] * v[j], term by term
RECURSIVE RowDot(_, _, _, _)
RowDot(m, i, v, j) ==
    IF j > Len(v) THEN Z(0) ELSE RAdd(RMul(m[i][j], v[j]), RowDot(m, i, v, j + 1))

\* the sum over i of v[i] * M[i][j], term by term
RECURSIVE ColDot(_, _, _, _)
ColDot(v, m, j, i) ==
    IF i > Len(v) THEN Z(0) ELSE RAdd(RMul(v[i], m[i][j]), ColDot(v, m, j, i + 1))

\* C9: for an r-by-c matrix M, M * v (v of length c) is the vector of
\* length r with i-th element the sum over j of M[i][j] * v[j], so I * v = v
\* for the identity I; v * M (v of length r) is the vector of length c with
\* j-th element the sum over i of v[i] * M[i][j], equal to transpose(M) * v.
C9_LinearMaps ==
    /\ pc = "M*a" =>
          /\ ret.kind = "eigen_vector"
          /\ Len(ret.val) = Rows(mats["M"])
          /\ \A i \in 1..Rows(mats["M"]) :
                ret.val[i] = RowDot(mats["M"], i, vecs["a"], 1)
          /\ mats["M"] = Eye(Len(vecs["a"]), Len(vecs["a"])) => ret.val = vecs["a"]
    /\ pc = "a*M" =>
          /\ ret.kind = "eigen_vector"
          /\ Len(ret.val) = Cols(mats["M"])
          /\ \A j \in 1..Cols(mats["M"]) :
                ret.val[j] = ColDot(vecs["a"], mats["M"], j, 1)
          /\ ret.val = OperatorTimes(Call_transpose(MatObj("M")), Obj("a")).val
    /\ pc = "T(M)*a" =>
          /\ ret.kind = "eigen_vector"
          /\ Len(ret.val) = Cols(mats["M"])
          /\ \A j \in 1..Cols(mats["M"]) :
                ret.val[j] = ColDot(vecs["a"], mats["M"], j, 1)

C9_Witness ==
    /\ pc = "a*M"
    /\ Rows(mats["M"]) = 2
    /\ Cols(mats["M"]) = 1
    /\ mats["M"] # Eye(2, 1)
    /\ vecs["a"][1] # Z(0)
    /\ vecs["a"][2] # Z(0)
    /\ ret.val = OperatorTimes(Call_transpose(MatObj("M")), Obj("a")).val

(***************************************************************************)
(* SpecNormalize: the caller normalizes the vector a, by the default       *)
(* overload or by normalize<l>, and then takes the norm of the same order. *)
(* The element type of the model holds a square root only when it is       *)
(* rational: the calls that take an L2 norm are made on the vectors whose  *)
(* L2 norm is rational ([3,4], [0,2], ...).                                *)
(***************************************************************************)
OrderName(l) == IF l = 1 THEN "1" ELSE IF l = 2 THEN "2" ELSE "Infinity"

InitNormalize ==
    /\ pc = "start"
    /\ \E n \in 1..MaxLen : \E v \in [1..n -> {Z(k) : k \in (0 - MaxNormCoef)..MaxNormCoef}] :
          vecs = [id \in VecIds |-> v]
    /\ mats = [id \in MatIds |-> <<<<Z(0)>>>>]
    /\ scal = Z(1)
    /\ ret = Void
    /\ call = NoCall
    /\ prev = [vecs |-> vecs, mats |-> mats, scal |-> scal, ret |-> Void]
    /\ ncalls = 0

NormOf ==
    /\ pc = "start"
    /\ HasSqrt(SquaredNorm(vecs["a"]))
    /\ Returns("norm(a)", CallOf("norm", "a", "", FALSE, FALSE), norm(Obj("a")))

Normalize ==
    /\ pc = "start"
    /\ HasSqrt(SquaredNorm(vecs["a"]))
    /\ Updates("normalized", CallOf("normalize", "a", "", FALSE, FALSE),
               normalize(vecs, "a"), Void)

NormalizeL ==
    /\ pc = "start"
    /\ \E l \in {1, 2, Infinity} :
          /\ l = 2 => HasSqrt(SquaredNorm(vecs["a"]))
          /\ Updates("normalized", CallOf("normalize", "a", OrderName(l), FALSE, FALSE),
                     normalize_l(l, vecs, "a"), Void)

NormOfNormalized ==
    /\ pc = "normalized"
    /\ call.rhs = ""
    /\ Returns("norm(normalized)", CallOf("norm", "a", "", FALSE, FALSE),
               norm(Obj("a")))

NormLOfNormalized ==
    /\ pc = "normalized"
    /\ call.rhs # ""
    /\ \E l \in {1, 2, Infinity} :
          /\ OrderName(l) = call.rhs
          /\ Returns("norm(normalized)", CallOf("norm", "a", call.rhs, FALSE, FALSE),
                     norm_l(l, Obj("a")))

SpecNormalize ==
    InitNormalize
        /\ [][ NormOf
               \/ Normalize
               \/ NormalizeL
               \/ NormOfNormalized
               \/ NormLOfNormalized ]_vars

IsZeroVector(v) == \A i \in 1..Len(v) : v[i] = Z(0)

\* v is the result of normalizing a nonzero vector: the zero vector is left
\* as it is by the default overload and made non-finite by normalize<l>
WasNonZero(v) == ~IsZeroVector(v) /\ \A i \in 1..Len(v) : IsFinite(v[i])

\* the norm of order name ("" for the default, L2) of v, from its definition
NormByDefinition(name, v) ==
    IF name = "1" THEN SumSeq([i \in 1..Len(v) |-> RAbs(v[i])])
    ELSE IF name = "Infinity"
         THEN CHOOSE x \in {RAbs(v[i]) : i \in 1..Len(v)} :
                 \A i \in 1..Len(v) : ~RLess(x, RAbs(v[i]))
         ELSE RSqrt(SumSeq([i \in 1..Len(v) |-> RMul(v[i], v[i])]))

\* C5: for a nonzero vector v, normalize(v) (default order, L2) and
\* normalize<l>(v) replace v in place by the old v divided by its norm of
\* that order and return nothing; afterwards the norm of that order of v
\* is 1.  (The default norm of [3,4] is 5.)
C5_NormalizeToUnit ==
    /\ (pc = "normalized" /\ ~IsZeroVector(prev.vecs["a"])) =>
          /\ ret.kind = "void"
          /\ Len(vecs["a"]) = Len(prev.vecs["a"])
          /\ \A i \in 1..Len(vecs["a"]) :
                vecs["a"][i] =
                    RDiv(prev.vecs["a"][i], NormByDefinition(call.rhs, prev.vecs["a"]))
          /\ NormByDefinition(call.rhs, vecs["a"]) = Z(1)
          /\ vecs["b"] = prev.vecs["b"]
    /\ (pc = "norm(normalized)" /\ WasNonZero(vecs["a"])) =>
          /\ ret.kind = "scalar"
          /\ ret.val = Z(1)
    /\ (pc = "norm(a)" /\ vecs["a"] = ScenarioV) => ret.val = Z(5)

C5_Witness ==
    /\ pc = "norm(normalized)"
    /\ call.rhs = "1"
    /\ Len(vecs["a"]) = 2
    /\ vecs["a"] = <<Rat(0 - 3, 7), Rat(4, 7)>>
    /\ ret.val = Z(1)

(***************************************************************************)
(* SpecCompound: the caller applies any sequence of at most MaxCalls       *)
(* compound assignments to its vector objects a and b and its scalar s.    *)
(* Either object may be the left operand, and the right operand of += and  *)
(* -= may be the left operand itself (a += a).  In this specification      *)
(* prev stays the initial state: the claim is stated on the steps.         *)
(***************************************************************************)
InitCompound ==
    /\ pc = "run"
    /\ \E n \in 1..MaxLen : \E v \in VectorsOfLen(n) :
          vecs = [id \in VecIds |->
                     IF id = "a" THEN v ELSE [i \in 1..n |-> Rat(0 - i, 2)]]
    /\ mats = [id \in MatIds |-> <<<<Z(0)>>>>]
    /\ scal \in {Z(0), Z(2), Rat(0 - 1, 2)}
    /\ ret = Void
    /\ call = NoCall
    /\ prev = [vecs |-> vecs, mats |-> mats, scal |-> scal, ret |-> Void]
    /\ ncalls = 0

\* a compound assignment: the store becomes h and the call returns v
Assigns(c, h, v) ==
    /\ ncalls < MaxCalls
    /\ vecs' = h
    /\ ret' = v
    /\ call' = c
    /\ ncalls' = ncalls + 1
    /\ UNCHANGED <<pc, mats, scal, prev>>

AddAssign ==
    \E l \in VecIds, r \in VecIds :
        Assigns(CallOf("+=", l, r, FALSE, FALSE),
                OperatorPlusAssign(vecs, Obj(l), Obj(r)),
                CompoundResult(OperatorPlusAssign(vecs, Obj(l), Obj(r)),
                               Obj(l), Obj(r), "vector"))

SubAssign ==
    \E l \in VecIds, r \in VecIds :
        Assigns(CallOf("-=", l, r, FALSE, FALSE),
                OperatorMinusAssign(vecs, Obj(l), Obj(r)),
                CompoundResult(OperatorMinusAssign(vecs, Obj(l), Obj(r)),
                               Obj(l), Obj(r), "vector"))

MulAssign ==
    \E l \in VecIds :
        Assigns(CallOf("*=", l, "s", FALSE, FALSE),
                OperatorTimesAssign(vecs, Obj(l), ScalarArg),
                CompoundResult(OperatorTimesAssign(vecs, Obj(l), ScalarArg),
                               Obj(l), ScalarArg, "scalar"))

QuotAssign ==
    \E l \in VecIds :
        Assigns(CallOf("/=", l, "s", FALSE, FALSE),
                OperatorDivAssign(vecs, Obj(l), ScalarArg),
                CompoundResult(OperatorDivAssign(vecs, Obj(l), ScalarArg),
                               Obj(l), ScalarArg, "scalar"))

SpecCompound ==
    InitCompound
        /\ [][ AddAssign
               \/ SubAssign
               \/ MulAssign
               \/ QuotAssign ]_vars

\* the value the binary operator of a compound assignment returns for the
\* operands as they are before the call
BinaryOf(c) ==
    CASE c.op = "+=" -> OperatorPlus(Obj(c.lhs), Obj(c.rhs))
      [] c.op = "-=" -> OperatorMinus(Obj(c.lhs), Obj(c.rhs))
      [] c.op = "*=" -> OperatorTimes(Obj(c.lhs), ScalarArg)
      [] c.op = "/=" -> OperatorDiv(Obj(c.lhs), ScalarArg)

\* C7: every step a += b, a -= b, a *= s, a /= s, after any sequence of
\* such steps, leaves in its left operand exactly the value the binary
\* operator a + b, a - b, a * s, a / s returns for the operands before the
\* step, returns a reference to that left operand, and changes no other
\* object: the right operand b (an object other than a) and the scalar s
\* keep their values.
C7_Step ==
    ncalls' = ncalls + 1 =>
        /\ vecs'[call'.lhs] = BinaryOf(call').val
        /\ ret'.kind = "vector"
        /\ ret'.ref = call'.lhs
        /\ ret'.val = vecs'[call'.lhs]
        /\ \A id \in VecIds \ {call'.lhs} : vecs'[id] = vecs[id]
        /\ scal' = scal
        /\ mats' = mats

C7_CompoundAssignment == [][C7_Step]_vars

C7_Witness ==
    /\ ncalls = MaxCalls
    /\ call.op = "-="
    /\ call.lhs = "b"
    /\ call.rhs = "a"
    /\ ret.ref = "b"
    /\ vecs["a"] # prev.vecs["a"]
    /\ vecs["b"] # prev.vecs["b"]
    /\ \A i \in 1..Len(vecs["b"]) : IsFinite(vecs["b"][i])

(***************************************************************************)
(* SpecOverload: the caller makes one call of an operator or named         *)
(* function of the layer on its vectors a, b, its square matrix M and its  *)
(* scalar s, passing each vector or matrix operand either as the           *)
(* container or as a view (map) of the container's buffer.                 *)
(***************************************************************************)
InitOverload ==
    /\ pc = "start"
    /\ \E n \in 1..MaxLen :
          /\ \E v \in VectorsOfLen(n) :
                vecs = [id \in VecIds |->
                           IF id = "a" THEN v ELSE [i \in 1..n |-> Rat(0 - i, 2)]]
          /\ \E m \in {Ramp(n, n), MatAdd(Eye(n, n), Ramp(n, n))} :
                mats = [id \in MatIds |-> m]
    /\ scal = Z(2)
    /\ ret = Void
    /\ call = NoCall
    /\ prev = [vecs |-> vecs, mats |-> mats, scal |-> scal, ret |-> Void]
    /\ ncalls = 0

CallPlus ==
    /\ pc = "start"
    /\ \E lv \in BOOLEAN, rv \in BOOLEAN :
          Returns("called", CallOf("+", "a", "b", lv, rv),
                  OperatorPlus(Operand("a", lv), Operand("b", rv)))

CallMinus ==
    /\ pc = "start"
    /\ \E lv \in BOOLEAN, rv \in BOOLEAN :
          Returns("called", CallOf("-", "a", "b", lv, rv),
                  OperatorMinus(Operand("a", lv), Operand("b", rv)))

CallVectorTimesVector ==
    /\ pc = "start"
    /\ \E lv \in BOOLEAN, rv \in BOOLEAN :
          Returns("called", CallOf("vector*vector", "a", "b", lv, rv),
                  OperatorTimes(Operand("a", lv), Operand("b", rv)))

CallCprod ==
    /\ pc = "start"
    /\ \E lv \in BOOLEAN, rv \in BOOLEAN :
          Returns("called", CallOf("cprod", "a", "b", lv, rv),
                  Call_cprod(Operand("a", lv), Operand("b", rv)))

CallCdiv ==
    /\ pc = "start"
    /\ \E lv \in BOOLEAN, rv \in BOOLEAN :
          Returns("called", CallOf("cdiv", "a", "b", lv, rv),
                  Call_cdiv(Operand("a", lv), Operand("b", rv)))

CallVectorTimesScalar ==
    /\ pc = "start"
    /\ \E lv \in BOOLEAN :
          Returns("called", CallOf("vector*scalar", "a", "s", lv, FALSE),
                  OperatorTimes(Operand("a", lv), ScalarArg))

CallScalarTimesVector ==
    /\ pc = "start"
    /\ \E rv \in BOOLEAN :
          Returns("called", CallOf("scalar*vector", "s", "a", FALSE, rv),
                  OperatorTimes(ScalarArg, Operand("a", rv)))

CallVectorDivScalar ==
    /\ pc = "start"
    /\ \E lv \in BOOLEAN :
          Returns("called", CallOf("vector/scalar", "a", "s", lv, FALSE),
                  OperatorDiv(Operand("a", lv), ScalarArg))

CallPlusAssign ==
    /\ pc = "start"
    /\ \E lv \in BOOLEAN, rv \in BOOLEAN :
          LET h == OperatorPlusAssign(vecs, Operand("a", lv), Operand("b", rv))
          IN  Updates("called", CallOf("+=", "a", "b", lv, rv), h,
                      CompoundResult(h, Operand("a", lv), Operand("b", rv), "vector"))

CallMinusAssign ==
    /\ pc = "start"
    /\ \E lv \in BOOLEAN, rv \in BOOLEAN :
          LET h == OperatorMinusAssign(vecs, Operand("a", lv), Operand("b", rv))
          IN  Updates("called", CallOf("-=", "a", "b", lv, rv), h,
                      CompoundResult(h, Operand("a", lv), Operand("b", rv), "vector"))

CallTimesAssign ==
    /\ pc = "start"
    /\ \E lv \in BOOLEAN :
          LET h == OperatorTimesAssign(vecs, Operand("a", lv), ScalarArg)
          IN  Updates("called", CallOf("*=", "a", "s", lv, FALSE), h,
                      CompoundResult(h, Operand("a", lv), ScalarArg, "scalar"))

CallDivAssign ==
    /\ pc = "start"
    /\ \E lv \in BOOLEAN :
          LET h == OperatorDivAssign(vecs, Operand("a", lv), ScalarArg)
          IN  Updates("called", CallOf("/=", "a", "s", lv, FALSE), h,
                      CompoundResult(h, Operand("a", lv), ScalarArg, "scalar"))

CallMatrixTimesVector ==
    /\ pc = "start"
    /\ \E lv \in BOOLEAN, rv \in BOOLEAN :
          Returns("called", CallOf("matrix*vector", "M", "a", lv, rv),
                  OperatorTimes(MatOperand("M", lv), Operand("a", rv)))

CallVectorTimesMatrix ==
    /\ pc = "start"
    /\ \E lv \in BOOLEAN, rv \in BOOLEAN :
          Returns("called", CallOf("vector*matrix", "a", "M", lv, rv),
                  OperatorTimes(Operand("a", lv), MatOperand("M", rv)))

CallMatrixTimesMatrix ==
    /\ pc = "start"
    /\ \E lv \in BOOLEAN, rv \in BOOLEAN :
          Returns("called", CallOf("matrix*matrix", "M", "M", lv, rv),
                  OperatorTimes(MatOperand("M", lv), MatOperand("M", rv)))

CallMatrixPlusMatrix ==
    /\ pc = "start"
    /\ \E lv \in BOOLEAN, rv \in BOOLEAN :
          Returns("called", CallOf("matrix+matrix", "M", "M", lv, rv),
                  OperatorPlus(MatOperand("M", lv), MatOperand("M", rv)))

CallMatrixMinusMatrix ==
    /\ pc = "start"
    /\ \E lv \in BOOLEAN, rv \in BOOLEAN :
          Returns("called", CallOf("matrix-matrix", "M", "M", lv, rv),
                  OperatorMinus(MatOperand("M", lv), MatOperand("M", rv)))

SpecOverload ==
    InitOverload
        /\ [][ CallPlus
               \/ CallMinus
               \/ CallVectorTimesVector
               \/ CallCprod
               \/ CallCdiv
               \/ CallVectorTimesScalar
               \/ CallScalarTimesVector
               \/ CallVectorDivScalar
               \/ CallPlusAssign
               \/ CallMinusAssign
               \/ CallTimesAssign
               \/ CallDivAssign
               \/ CallMatrixTimesVector
               \/ CallVectorTimesMatrix
               \/ CallMatrixTimesMatrix
               \/ CallMatrixPlusMatrix
               \/ CallMatrixMinusMatrix ]_vars

\* the operands of the last call as they were before it, as containers
PrevObj(id) == [kind |-> "vector", val |-> prev.vecs[id], ref |-> id]

PrevMat(id) == [kind |-> "matrix", val |-> prev.mats[id], ref |-> id]

PrevScalar == [kind |-> "scalar", val |-> prev.scal, ref |-> "s"]

\* what the overload taking two owned containers returns for the operands
\* of the last call
OwnedResult ==
    CASE call.op = "+" -> Plus_vec_vec(PrevObj("a"), PrevObj("b"))
      [] call.op = "-" -> Minus_vec_vec(PrevObj("a"), PrevObj("b"))
      [] call.op = "vector*vector" -> Times_vec_vec(PrevObj("a"), PrevObj("b"))
      [] call.op = "cprod" -> cprod(PrevObj("a"), PrevObj("b"))
      [] call.op = "cdiv" -> cdiv(PrevObj("a"), PrevObj("b"))
      [] call.op = "vector*scalar" -> Times_vec_scalar(PrevObj("a"), PrevScalar)
      [] call.op = "scalar*vector" -> Times_scalar_vec(PrevScalar, PrevObj("a"))
      [] call.op = "vector/scalar" -> Div_vec_scalar(PrevObj("a"), PrevScalar)
      [] call.op = "+=" ->
            [kind |-> "vector", val |-> PlusAssign(prev.vecs, "a", "b")["a"], ref |-> "a"]
      [] call.op = "-=" ->
            [kind |-> "vector", val |-> MinusAssign(prev.vecs, "a", "b")["a"], ref |-> "a"]
      [] call.op = "*=" ->
            [kind |-> "vector", val |-> TimesAssign(prev.vecs, "a", prev.scal)["a"], ref |-> "a"]
      [] call.op = "/=" ->
            [kind |-> "vector", val |-> DivAssign(prev.vecs, "a", prev.scal)["a"], ref |-> "a"]
      [] call.op = "matrix*vector" -> Times_mat_vec(PrevMat("M"), PrevObj("a"))
      [] call.op = "vector*matrix" -> Times_vec_mat(PrevObj("a"), PrevMat("M"))
      [] call.op = "matrix*matrix" -> Times_mat_mat(PrevMat("M"), PrevMat("M"))
      [] call.op = "matrix+matrix" -> Plus_mat_mat(PrevMat("M"), PrevMat("M"))
      [] call.op = "matrix-matrix" -> Minus_mat_mat(PrevMat("M"), PrevMat("M"))

SameAsOwned ==
    /\ ret.kind = OwnedResult.kind
    /\ ret.val = OwnedResult.val

\* the operators with overloads taking a view: each has one with the view
\* on the left and one with the view on the right, none with two views
ViewOperators == {"+", "-", "vector*vector", "cprod", "matrix*vector"}

OneView == (call.lview /\ ~call.rview) \/ (~call.lview /\ call.rview)

\* C1, as stated: every call, with views in any of the operand positions,
\* selects an overload and returns what the overload taking two owned
\* containers returns.
C1_EveryOperatorTakesViews == pc = "called" => SameAsOwned

\* C1, amended: +, -, vector*vector, cprod and matrix*vector each have an
\* overload with a view as the left operand and one with a view as the
\* right operand, and each returns what the overload taking two owned
\* containers returns; a call of these with two views, and a call of any
\* other operator or function with a view, matches no overload of the layer
\* and changes no object.
C1_ViewOverloads ==
    pc = "called" =>
        /\ (~call.lview /\ ~call.rview) => SameAsOwned
        /\ (call.op \in ViewOperators /\ OneView) => SameAsOwned
        /\ ((call.lview \/ call.rview) /\ ~(call.op \in ViewOperators /\ OneView)) =>
              /\ ret.kind = "no_match"
              /\ vecs = prev.vecs

C1_Witness ==
    /\ pc = "called"
    /\ call.op = "cprod"
    /\ call.lview
    /\ ~call.rview
    /\ ret.kind = "vector"
    /\ Len(ret.val) = MaxLen
    /\ ret.val[1] # Z(0)
    /\ ret.val = OwnedResult.val

(***************************************************************************)
(* SpecCompose: the caller makes one call of a value-returning operator    *)
(* or function on its vectors a, b, its square matrix M and its scalar s,  *)
(* and then a second call with the first result as one operand, where the  *)
(* second operator takes an operand of that algebraic kind (a vector, a    *)
(* matrix or a scalar).                                                    *)
(***************************************************************************)
InitCompose ==
    /\ pc = "start"
    /\ \E n \in 1..MaxLen :
          /\ vecs = [id \in VecIds |->
                        IF id = "a" THEN [i \in 1..n |-> Z(i)]
                        ELSE [i \in 1..n |-> Rat(0 - i, 2)]]
          /\ mats = [id \in MatIds |-> MatAdd(Eye(n, n), Ramp(n, n))]
    /\ scal = Z(2)
    /\ ret = Void
    /\ call = NoCall
    /\ prev = [vecs |-> vecs, mats |-> mats, scal |-> scal, ret |-> Void]
    /\ ncalls = 0

\* the operands of a call: the caller's objects and, for the second call,
\* the first result where it is a vector, a matrix or a scalar
VecPool ==
    {Obj("a"), Obj("b")}
        \cup (IF pc = "first" /\ ret.kind \in {"vector", "eigen_vector"}
              THEN {ret} ELSE {})

MatPool ==
    {MatObj("M")}
        \cup (IF pc = "first" /\ ret.kind \in {"matrix", "eigen_matrix"}
              THEN {ret} ELSE {})

ScalPool == {ScalarArg} \cup (IF pc = "first" /\ ret.kind = "scalar" THEN {ret} ELSE {})

\* a call of o on l and r (Void: o takes one operand) that returns v; the
\* second call has the first result, named "ret", as exactly one operand
Composes(o, l, r, v) ==
    /\ pc \in {"start", "first"}
    /\ pc = "first" => ((l.ref = "") # (r.ref = "" /\ r.kind # "void"))
    /\ Returns(IF pc = "start" THEN "first" ELSE "second",
               CallOf(o, IF l.ref = "" THEN "ret" ELSE l.ref,
                      IF r.kind = "void" THEN "" ELSE IF r.ref = "" THEN "ret" ELSE r.ref,
                      FALSE, FALSE), v)

ComposePlus ==
    \/ \E l \in VecPool, r \in VecPool : Composes("+", l, r, OperatorPlus(l, r))
    \/ \E l \in MatPool, r \in MatPool : Composes("+", l, r, OperatorPlus(l, r))

ComposeMinus ==
    \/ \E l \in VecPool, r \in VecPool : Composes("-", l, r, OperatorMinus(l, r))
    \/ \E l \in MatPool, r \in MatPool : Composes("-", l, r, OperatorMinus(l, r))

ComposeTimes ==
    \/ \E l \in VecPool, r \in ScalPool : Composes("*", l, r, OperatorTimes(l, r))
    \/ \E l \in ScalPool, r \in VecPool : Composes("*", l, r, OperatorTimes(l, r))
    \/ \E l \in VecPool, r \in VecPool : Composes("*", l, r, OperatorTimes(l, r))
    \/ \E l \in MatPool, r \in ScalPool : Composes("*", l, r, OperatorTimes(l, r))
    \/ \E l \in ScalPool, r \in MatPool : Composes("*", l, r, OperatorTimes(l, r))
    \/ \E l \in MatPool, r \in VecPool : Composes("*", l, r, OperatorTimes(l, r))
    \/ \E l \in VecPool, r \in MatPool : Composes("*", l, r, OperatorTimes(l, r))
    \/ \E l \in MatPool, r \in MatPool : Composes("*", l, r, OperatorTimes(l, r))

ComposeDiv ==
    \/ \E l \in VecPool, r \in ScalPool : Composes("/", l, r, OperatorDiv(l, r))
    \/ \E l \in MatPool, r \in ScalPool : Composes("/", l, r, OperatorDiv(l, r))

ComposeCprod ==
    \E l \in VecPool, r \in VecPool : Composes("cprod", l, r, Call_cprod(l, r))

ComposeCdiv ==
    \E l \in VecPool, r \in VecPool : Composes("cdiv", l, r, Call_cdiv(l, r))

ComposeSum == \E x \in VecPool : Composes("sum", x, Void, Call_sum(x))

ComposeTranspose ==
    \E x \in MatPool : Composes("transpose", x, Void, Call_transpose(x))

ComposeInverse == \E x \in MatPool : Composes("inverse", x, Void, Call_inverse(x))

SpecCompose ==
    InitCompose
        /\ [][ ComposePlus
               \/ ComposeMinus
               \/ ComposeTimes
               \/ ComposeDiv
               \/ ComposeCprod
               \/ ComposeCdiv
               \/ ComposeSum
               \/ ComposeTranspose
               \/ ComposeInverse ]_vars

\* the kind of an operand of the last call
KindOfName(name) ==
    IF name = "ret" THEN prev.ret.kind
    ELSE IF name \in VecIds THEN "vector"
    ELSE IF name \in MatIds THEN "matrix"
    ELSE "scalar"

\* the kind of value each operation returns for operands of container kind
ReturnKind(o, l, r) ==
    CASE o \in {"cprod", "cdiv"} -> "vector"
      [] o = "sum" -> "scalar"
      [] o \in {"transpose", "inverse"} -> "matrix"
      [] o = "+" -> IF l = "vector" THEN "vector" ELSE "eigen_matrix"
      [] o = "-" -> IF l = "vector" THEN "eigen_vector" ELSE "eigen_matrix"
      [] o = "/" -> IF l = "vector" THEN "vector" ELSE "eigen_matrix"
      [] o = "*" ->
            IF "matrix" \in {l, r}
            THEN (IF "vector" \in {l, r} THEN "eigen_vector" ELSE "eigen_matrix")
            ELSE (IF l = "vector" /\ r = "vector" THEN "scalar" ELSE "vector")

=============================================================================
